---- MODULE Spec2Model ----
(***************************************************************************)
(* A model of glsvg/svg.py: SVGConfig and the SVG document object (load,   *)
(* stencil mask allocation, anchors, draw).                                *)
(*                                                                         *)
(* Attribute strings and tags are sequences of one-character strings, so   *)
(* endswith, replace and the numeric parse are computed, not assumed.      *)
(* GL calls, prints and the render calls made on collaborators are         *)
(* recorded as events [op, n, v] in the variable gl.                       *)
(***************************************************************************)
EXTENDS Integers, Sequences, FiniteSets, TLC

VARIABLES
    glStencilBits,  \* what glGetInteger(GL_STENCIL_BITS) answers in this GL context
    doc,            \* the element tree that parse(f) yields for self.filename
    args,           \* the anchor_x / anchor_y arguments given to SVG(...)
    pc,             \* position of the constructor, then "ready" or "failed"
    config,         \* self.config
    _stencil_mask,  \* self._stencil_mask
    maskCalls,      \* number of _next_stencil_mask calls made on this document
    wraps,          \* the calls (by number) that wrapped the counter and cleared
    ret,            \* the value the last _next_stencil_mask call returned
    _paths,         \* self._paths: the shapes, as element numbers
    path_lookup,    \* self.path_lookup: path id -> element
    patterns,       \* self.patterns: pattern id -> [node, paths]
    _gradients,     \* self._gradients: gradient id -> element
    width, height,  \* self.width, self.height
    disp_list,      \* self.disp_list: the events compiled into the display list
    _anchor_x, _anchor_y,   \* self._anchor_x, self._anchor_y
    _a_x, _a_y,     \* self._a_x, self._a_y: [def, v], v an exact number
    gl,             \* events of the constructor, then of the last call
    last,           \* the last call made on the constructed document
    cfg,            \* an SVGConfig a caller created and may have modified
    detailed        \* what cfg.super_detailed() returned last

vars == <<glStencilBits, doc, args, pc, config, _stencil_mask, maskCalls, wraps,
          ret, _paths, path_lookup, patterns, _gradients, width, height,
          disp_list, _anchor_x, _anchor_y, _a_x, _a_y, gl, last, cfg, detailed>>

docVars == <<doc, args, pc, config, _stencil_mask, maskCalls, wraps, ret, _paths,
             path_lookup, patterns, _gradients, width, height, disp_list,
             _anchor_x, _anchor_y, _a_x, _a_y, gl, last>>

----------------------------------------------------------------------------
(* Bounds of the model *)

MaxBits == 2        \* stencil depths 0..MaxBits are explored
MaxNodes == 3       \* elements below the root in the documents of the load
MaxPoints == 2      \* subdivision counts a caller assigns: 1..MaxPoints

Pow2(n) == 2 ^ n

MaxMaskCalls == Pow2(MaxBits)

----------------------------------------------------------------------------
(* SVGConfig *)

BEZIER_POINTS == 10
CIRCLE_POINTS == 10
\* a tolerance is the rational num/den; TOLERANCE is 1/1000
TOLERANCE == [num |-> 1, den |-> 1000]

NoConfig == [stencil_bits |-> -1, has_framebuffer_objects |-> FALSE,
             allow_stencil |-> FALSE, bezier_points |-> 0, circle_points |-> 0,
             tolerance |-> [num |-> 0, den |-> 1]]

\* SVGConfig.__init__ in a GL context that reports `bits` stencil bits
SVGConfig(bits) ==
    [stencil_bits |-> bits,
     has_framebuffer_objects |-> TRUE,
     allow_stencil |-> bits > 0,
     bezier_points |-> BEZIER_POINTS,
     circle_points |-> CIRCLE_POINTS,
     tolerance |-> TOLERANCE]

\* SVGConfig.super_detailed: starts from a new SVGConfig(), not from self
super_detailed(self, bits) ==
    LET c0 == SVGConfig(bits) IN
    [c0 EXCEPT !.bezier_points = c0.bezier_points * 10,
               !.circle_points = c0.circle_points * 10,
               !.tolerance = [num |-> c0.tolerance.num, den |-> c0.tolerance.den * 100]]

PointValues == (1..MaxPoints) \cup {BEZIER_POINTS}
ToleranceValues == {TOLERANCE, [num |-> 1, den |-> 2]}

\* a caller assigns a field of its config
SetStencilBits == \E b \in 0..MaxBits :
    /\ cfg' = [cfg EXCEPT !.stencil_bits = b]
    /\ UNCHANGED <<glStencilBits, detailed, docVars>>

SetAllowStencil == \E b \in BOOLEAN :
    /\ cfg' = [cfg EXCEPT !.allow_stencil = b]
    /\ UNCHANGED <<glStencilBits, detailed, docVars>>

SetHasFramebufferObjects == \E b \in BOOLEAN :
    /\ cfg' = [cfg EXCEPT !.has_framebuffer_objects = b]
    /\ UNCHANGED <<glStencilBits, detailed, docVars>>

SetBezierPoints == \E n \in PointValues :
    /\ cfg' = [cfg EXCEPT !.bezier_points = n]
    /\ UNCHANGED <<glStencilBits, detailed, docVars>>

SetCirclePoints == \E n \in PointValues :
    /\ cfg' = [cfg EXCEPT !.circle_points = n]
    /\ UNCHANGED <<glStencilBits, detailed, docVars>>

SetTolerance == \E t \in ToleranceValues :
    /\ cfg' = [cfg EXCEPT !.tolerance = t]
    /\ UNCHANGED <<glStencilBits, detailed, docVars>>

SuperDetailed ==
    /\ detailed' = super_detailed(cfg, glStencilBits)
    /\ UNCHANGED <<glStencilBits, cfg, docVars>>

----------------------------------------------------------------------------
(* Strings, numbers and events *)

Str_path == <<"p","a","t","h">>
Str_rect == <<"r","e","c","t">>
Str_polyline == <<"p","o","l","y","l","i","n","e">>
Str_polygon == <<"p","o","l","y","g","o","n">>
Str_line == <<"l","i","n","e">>
Str_circle == <<"c","i","r","c","l","e">>
Str_ellipse == <<"e","l","l","i","p","s","e">>
Str_text == <<"t","e","x","t">>
Str_g == <<"g">>
Str_pattern == <<"p","a","t","t","e","r","n">>
Str_linearGradient == <<"l","i","n","e","a","r","G","r","a","d","i","e","n","t">>
Str_radialGradient == <<"r","a","d","i","a","l","G","r","a","d","i","e","n","t">>
Str_cm == <<"c","m">>
Str_0 == <<"0">>

\* str.endswith
EndsWith(s, suffix) ==
    /\ Len(s) >= Len(suffix)
    /\ SubSeq(s, Len(s) - Len(suffix) + 1, Len(s)) = suffix

StartsWith(s, prefix) ==
    /\ Len(s) >= Len(prefix)
    /\ SubSeq(s, 1, Len(prefix)) = prefix

\* `old in s`
RECURSIVE Contains(_, _)
Contains(s, old) ==
    IF Len(s) < Len(old) THEN FALSE
    ELSE StartsWith(s, old) \/ Contains(Tail(s), old)

\* str.replace(old, new): every occurrence, left to right
RECURSIVE Replace(_, _, _)
Replace(s, old, new) ==
    IF Len(s) < Len(old) THEN s
    ELSE IF StartsWith(s, old)
         THEN new \o Replace(SubSeq(s, Len(old) + 1, Len(s)), old, new)
         ELSE <<Head(s)>> \o Replace(Tail(s), old, new)

Digits == {"0","1","2","3","4","5","6","7","8","9"}

DigitValue(ch) ==
    CASE ch = "0" -> 0 [] ch = "1" -> 1 [] ch = "2" -> 2 [] ch = "3" -> 3
      [] ch = "4" -> 4 [] ch = "5" -> 5 [] ch = "6" -> 6 [] ch = "7" -> 7
      [] ch = "8" -> 8 [] ch = "9" -> 9

IsNumber(s) == Len(s) > 0 /\ \A i \in 1..Len(s) : s[i] \in Digits

\* parser_utils.parse_float on a string of decimal digits
RECURSIVE parse_float(_)
parse_float(s) ==
    IF Len(s) = 0 THEN 0
    ELSE 10 * parse_float(SubSeq(s, 1, Len(s) - 1)) + DigitValue(s[Len(s)])

\* parser_utils.parse_list: the items of a blank-separated list
RECURSIVE parse_list(_)
parse_list(s) ==
    IF Len(s) = 0 THEN <<>>
    ELSE IF Head(s) = " " THEN parse_list(Tail(s))
    ELSE LET stop == IF \E i \in 1..Len(s) : s[i] = " "
                     THEN CHOOSE i \in 1..Len(s) :
                              s[i] = " " /\ \A j \in 1..(i - 1) : s[j] # " "
                     ELSE Len(s) + 1
         IN <<SubSeq(s, 1, stop - 1)>> \o parse_list(SubSeq(s, stop, Len(s)))

\* an attribute of an element: present with a value, or absent
Attr(s) == [has |-> TRUE, val |-> s]
NoAttr == [has |-> FALSE, val |-> <<>>]

\* element.get(name, default)
Get(attr, default) == IF attr.has THEN attr.val ELSE default

\* Exact numbers: num/den in lowest terms, den > 0
Q(n) == [num |-> n, den |-> 1]
Half(n) == IF n % 2 = 0 THEN [num |-> n \div 2, den |-> 1] ELSE [num |-> n, den |-> 2]
Neg(q) == [num |-> 0 - q.num, den |-> q.den]
Truthy(q) == q.num # 0

\* an anchor value: a keyword or a number
Kw(s) == [kw |-> s, q |-> Q(0)]
Num(n) == [kw |-> "", q |-> Q(n)]
NoAnchor == [kw |-> "unset", q |-> Q(0)]

\* an attribute of self that holds a number, or does not exist yet
Defined(q) == [def |-> TRUE, v |-> q]
Undefined == [def |-> FALSE, v |-> Q(0)]

\* an event: a GL call, a print, or a render call on a shape or pattern `n`
Ev(op, n, v) == [op |-> op, n |-> n, v |-> v]
GL(op, v) == Ev(op, 0, v)

EmptyDict == [k \in {} |-> 0]
Put(d, k, x) == [j \in (DOMAIN d) \cup {k} |-> IF j = k THEN x ELSE d[j]]

----------------------------------------------------------------------------
(* The element tree.  The elements below the root are numbered 1..n in     *)
(* document order (each after its parent and after the subtrees of its     *)
(* earlier siblings); parent 0 is the root.  `bad` marks an element whose  *)
(* scope or shape construction raises.                                     *)

NoneId == "None"

RECURSIVE Ancestors(_, _)
Ancestors(parent, e) ==
    IF parent[e] = 0 THEN {} ELSE {parent[e]} \cup Ancestors(parent, parent[e])

ParentVecs(n) ==
    {p \in [1..n -> 0..n] :
        /\ \A i \in 1..n : p[i] < i
        /\ \A i \in 2..n : p[i] \in {0, i - 1} \cup Ancestors(p, i - 1)}

\* id attributes: all different, all the same, or the first one absent
DistinctIds(n) == [i \in 1..n |-> <<"a", "b", "c", "d", "e">>[i]]
SameIds(n) == [i \in 1..n |-> "a"]
FirstAnonymous(n) == [i \in 1..n |-> IF i = 1 THEN NoneId ELSE "b"]

\* the tree of n elements with tags t, parents p, ids `ids`, element b failing
Tree(n, t, p, ids, b) ==
    [i \in 1..n |-> [tag |-> t[i], parent |-> p[i], id |-> ids[i], bad |-> (i = b)]]

Trees(n, tags, idvecs, bads) ==
    {Tree(n, t, p, ids, b) :
        t \in [1..n -> tags], p \in ParentVecs(n), ids \in idvecs, b \in bads}

Document(w, h, vb, nodes) == [width |-> w, height |-> h, viewBox |-> vb, nodes |-> nodes]

\* the children of element e (0: of the root), in document order
RECURSIVE ChildrenFrom(_, _, _)
ChildrenFrom(nodes, e, i) ==
    IF i > Len(nodes) THEN <<>>
    ELSE (IF nodes[i].parent = e THEN <<i>> ELSE <<>>) \o ChildrenFrom(nodes, e, i + 1)

getchildren(nodes, e) == ChildrenFrom(nodes, e, 1)

NodeAncestors(nodes, e) == Ancestors([i \in 1..Len(nodes) |-> nodes[i].parent], e)

----------------------------------------------------------------------------
(* SvgElementScope and SVGPath, as far as svg.py reads them *)

\* scope.is_pattern / path.is_pattern: the element is a pattern definition
is_pattern(nodes, e) == EndsWith(nodes[e].tag, Str_pattern)

PatternAncestors(nodes, e) == {a \in NodeAncestors(nodes, e) : is_pattern(nodes, a)}

\* path.is_pattern_part: the element lies inside a pattern definition
is_pattern_part(nodes, e) == PatternAncestors(nodes, e) # {}

\* the id of the pattern a pattern part belongs to: its nearest pattern ancestor
pattern_id(nodes, e) ==
    nodes[CHOOSE a \in PatternAncestors(nodes, e) :
              \A b \in PatternAncestors(nodes, e) : b <= a].id

\* scope.path_id
path_id(nodes, e) == nodes[e].id

----------------------------------------------------------------------------
(* SVG: parsing *)

\* _is_path_tag taking a text element for a shape as well
_is_path_tag_text(tag) ==
    \/ EndsWith(tag, Str_path) \/ EndsWith(tag, Str_rect)
    \/ EndsWith(tag, Str_polyline) \/ EndsWith(tag, Str_polygon)
    \/ EndsWith(tag, Str_line) \/ EndsWith(tag, Str_text)
    \/ EndsWith(tag, Str_circle) \/ EndsWith(tag, Str_ellipse)

_is_path_tag(tag) ==
    \/ EndsWith(tag, Str_path)
    \/ EndsWith(tag, Str_rect)
    \/ EndsWith(tag, Str_polyline) \/ EndsWith(tag, Str_polygon)
    \/ EndsWith(tag, Str_line)
    \/ EndsWith(tag, Str_circle) \/ EndsWith(tag, Str_ellipse)

\* what parsing has built so far: the four tables, what was printed, and
\* whether an exception is propagating
ParseState(paths, lookup, gradients, pats, out, err) ==
    [paths |-> paths, lookup |-> lookup, gradients |-> gradients,
     patterns |-> pats, out |-> out, err |-> err]

\* SVG._register_pattern_part, called by the SVGPath of a pattern part
_register_pattern_part(st, pid, e) ==
    [st EXCEPT !.out = Append(@, Ev("print registering pattern", e, <<>>)),
               !.patterns = [@ EXCEPT ![pid].paths = Append(@, e)]]

\* SVGPath(self, scope, e): registers itself with its pattern when it is a part
SVGPath(st, nodes, e) ==
    IF is_pattern_part(nodes, e)
    THEN _register_pattern_part(st, pattern_id(nodes, e), e)
    ELSE st

\* the if/elif chain of _parse_element for one element
ParseTag(st, nodes, e) ==
    LET tag == nodes[e].tag IN
    IF _is_path_tag(tag)
    THEN LET st1 == SVGPath(st, nodes, e) IN
         [st1 EXCEPT !.paths = Append(@, e),
                     !.lookup = Put(@, path_id(nodes, e), e)]
    ELSE IF EndsWith(tag, Str_text)
    THEN [st EXCEPT !.out = Append(@, Ev("warn Text tag not supported", e, <<>>))]
    ELSE IF EndsWith(tag, Str_linearGradient)
    THEN [st EXCEPT !.gradients = Put(@, nodes[e].id, e)]
    ELSE IF EndsWith(tag, Str_radialGradient)
    THEN [st EXCEPT !.gradients = Put(@, nodes[e].id, e)]
    ELSE IF EndsWith(tag, Str_pattern)
    THEN [st EXCEPT !.patterns = Put(@, nodes[e].id, [node |-> e, paths |-> <<>>])]
    ELSE st

\* the except clause without its raise
OnException_swallow(st, c) ==
    [st EXCEPT !.out = Append(@, Ev("print Exception while parsing element", c, <<>>)),
               !.err = FALSE]

\* the except clause of the loops over children: print the child, raise again
OnException(st, c) ==
    [st EXCEPT !.out = Append(@, Ev("print Exception while parsing element", c, <<>>)),
               !.err = TRUE]

RECURSIVE _parse_element(_, _, _)
RECURSIVE ParseChildren(_, _, _, _)

\* for c in children: try: self._parse_element(c, scope) except ...: print; raise
ParseChildren(st, nodes, cs, i) ==
    IF i > Len(cs) THEN st
    ELSE LET r == _parse_element(st, nodes, cs[i]) IN
         IF r.err THEN OnException(r, cs[i])
         ELSE ParseChildren(r, nodes, cs, i + 1)

_parse_element(st, nodes, e) ==
    IF nodes[e].bad
    THEN [st EXCEPT !.err = TRUE]
    ELSE ParseChildren(ParseTag(st, nodes, e), nodes, getchildren(nodes, e), 1)

\* the root's width or height attribute as _parse_doc reads it
Measurement(attr) ==
    LET m == Get(attr, Str_0) IN
    IF Contains(m, Str_cm) THEN Replace(m, Str_cm, Str_0) ELSE m

\* _parse_doc with the viewBox read only when there is no width attribute
ParseSize_attributeFirst(d) ==
    LET wm == Measurement(d.width)
        hm == Measurement(d.height)
    IN  IF d.viewBox.has /\ d.viewBox.val # <<>> /\ ~d.width.has
        THEN LET box == parse_list(d.viewBox.val) IN
             [err |-> FALSE, width |-> parse_float(box[3]), height |-> parse_float(box[4])]
        ELSE [err |-> FALSE, width |-> parse_float(wm), height |-> parse_float(hm)]

\* _parse_doc up to the loop over the root's children: [err, width, height]
ParseSize(d) ==
    LET wm == Measurement(d.width)
        hm == Measurement(d.height)
    IN  IF ~IsNumber(wm) \/ ~IsNumber(hm)
        THEN [err |-> TRUE, width |-> -1, height |-> -1]
        ELSE IF d.viewBox.has /\ d.viewBox.val # <<>>
        THEN LET box == parse_list(d.viewBox.val) IN
             IF Len(box) # 4 \/ \E k \in 1..Len(box) : ~IsNumber(box[k])
             THEN [err |-> TRUE, width |-> parse_float(wm), height |-> parse_float(hm)]
             ELSE [err |-> FALSE, width |-> parse_float(box[3]),
                   height |-> parse_float(box[4])]
        ELSE [err |-> FALSE, width |-> parse_float(wm), height |-> parse_float(hm)]

\* _parse_doc: the state of the tables when it returns or raises
_parse_doc(d, st) ==
    LET size == ParseSize(d) IN
    IF size.err THEN [st EXCEPT !.err = TRUE, !.paths = <<>>]
    ELSE ParseChildren([st EXCEPT !.paths = <<>>], d.nodes, getchildren(d.nodes, 0), 1)

----------------------------------------------------------------------------
(* SVG: the constructor's steps and the methods *)

Scale(s) == [tuple |-> FALSE, a |-> s, b |-> s]
ScaleXY(sx, sy) == [tuple |-> TRUE, a |-> sx, b |-> sy]

Call(op, x, y, z, angle, scale, ok) ==
    [op |-> op, x |-> x, y |-> y, z |-> z, angle |-> angle, scale |-> scale, ok |-> ok]
NoCall == Call("", 0, 0, 0, 0, Scale(1), TRUE)
Method(op) == Call(op, 0, 0, 0, 0, Scale(1), TRUE)

\* events of a step: appended while the constructor runs, else those of the call
Emit(events) == gl' = IF pc = "ready" THEN events ELSE gl \o events
Called(call) == last' = IF pc = "ready" THEN call ELSE last

\* glStencilMask(0xFF); glClear(GL_STENCIL_BUFFER_BIT)
ClearStencil == <<GL("glStencilMask(0xFF)", <<>>), GL("glClear(GL_STENCIL_BUFFER_BIT)", <<>>)>>

Blend == <<GL("glEnable(GL_BLEND)", <<>>),
           GL("glBlendFunc(GL_SRC_ALPHA, GL_ONE_MINUS_SRC_ALPHA)", <<>>)>>

\* _next_stencil_mask with the bound taken as 2**bits
_next_stencil_mask_bound(mask, bits) ==
    LET m == mask + 1 IN
    IF m > Pow2(bits)
    THEN [mask |-> 1, wrapped |-> TRUE]
    ELSE [mask |-> m, wrapped |-> FALSE]

\* _next_stencil_mask with >= in place of >
_next_stencil_mask_early(mask, bits) ==
    LET m == mask + 1 IN
    IF m >= Pow2(bits) - 1
    THEN [mask |-> 1, wrapped |-> TRUE]
    ELSE [mask |-> m, wrapped |-> FALSE]

\* _next_stencil_mask: the new counter, and whether it wrapped and cleared
_next_stencil_mask(mask, bits) ==
    LET m == mask + 1 IN
    IF m > Pow2(bits) - 1
    THEN [mask |-> 1, wrapped |-> TRUE]
    ELSE [mask |-> m, wrapped |-> FALSE]

\* a shape's or a pattern's render asks for a mask, during a pass or later
NextStencilMask ==
    /\ pc \in {"prerender", "render", "anchors", "ready"}
    /\ maskCalls < MaxMaskCalls
    /\ LET r == _next_stencil_mask(_stencil_mask, config.stencil_bits) IN
       /\ _stencil_mask' = r.mask
       /\ ret' = r.mask
       /\ maskCalls' = maskCalls + 1
       /\ wraps' = IF r.wrapped THEN wraps \cup {maskCalls + 1} ELSE wraps
       /\ Emit(IF r.wrapped THEN ClearStencil ELSE <<>>)
    /\ Called(Method("_next_stencil_mask"))
    /\ UNCHANGED <<glStencilBits, doc, args, pc, config, _paths, path_lookup, patterns,
                   _gradients, width, height, disp_list, _anchor_x, _anchor_y,
                   _a_x, _a_y, cfg, detailed>>

is_stencil_enabled(c) == c.allow_stencil

\* _generate_disp_list, line 193: self._parse_doc()
ParseDoc ==
    /\ pc = "parse"
    /\ LET size == ParseSize(doc)
           st == _parse_doc(doc, ParseState(_paths, path_lookup, _gradients,
                                            patterns, <<>>, FALSE))
       IN /\ width' = size.width
          /\ height' = size.height
          /\ _paths' = st.paths
          /\ path_lookup' = st.lookup
          /\ _gradients' = st.gradients
          /\ patterns' = st.patterns
          /\ gl' = gl \o st.out
          /\ pc' = IF st.err THEN "failed" ELSE "prerender"
    /\ UNCHANGED <<glStencilBits, doc, args, config, _stencil_mask, maskCalls, wraps,
                   ret, disp_list, _anchor_x, _anchor_y, _a_x, _a_y, last, cfg, detailed>>

\* the orders in which a dict can yield its values
Orders(d) ==
    {o \in [1..Cardinality(DOMAIN d) -> DOMAIN d] :
        \A i, j \in 1..Cardinality(DOMAIN d) : i # j => o[i] # o[j]}

\* prerender_patterns, with self.patterns.values() in the order `order`
PrerenderEvents(c, pats, order) ==
    Blend
    \o (IF is_stencil_enabled(c) THEN ClearStencil ELSE <<>>)
    \o [i \in 1..Len(order) |-> Ev("pattern.render", pats[order[i]].node, <<>>)]

PrerenderPatterns ==
    /\ pc \in {"prerender", "ready"}
    /\ \E order \in Orders(patterns) : Emit(PrerenderEvents(config, patterns, order))
    /\ Called(Method("prerender_patterns"))
    /\ pc' = IF pc = "prerender" THEN "render" ELSE pc
    /\ UNCHANGED <<glStencilBits, doc, args, config, _stencil_mask, maskCalls, wraps,
                   ret, _paths, path_lookup, patterns, _gradients, width, height,
                   disp_list, _anchor_x, _anchor_y, _a_x, _a_y, cfg, detailed>>

\* the loop of render without its test of the pattern flags
RenderPaths_unfiltered(nodes, paths) ==
    [i \in 1..Len(paths) |-> Ev("svg_path.render", paths[i], <<>>)]

\* the loop of render over self._paths
RECURSIVE RenderPaths(_, _)
RenderPaths(nodes, paths) ==
    IF paths = <<>> THEN <<>>
    ELSE (IF ~is_pattern(nodes, Head(paths)) /\ ~is_pattern_part(nodes, Head(paths))
          THEN <<Ev("svg_path.render", Head(paths), <<>>)>>
          ELSE <<>>)
         \o RenderPaths(nodes, Tail(paths))

\* render with the stencil clear after the shapes
RenderEvents_clearLast(c, nodes, paths) ==
    Blend
    \o RenderPaths(nodes, paths)
    \o (IF is_stencil_enabled(c) THEN ClearStencil ELSE <<>>)

\* render
RenderEvents(c, nodes, paths) ==
    Blend
    \o (IF is_stencil_enabled(c) THEN ClearStencil ELSE <<>>)
    \o RenderPaths(nodes, paths)

\* render: inside the display list while the constructor runs (lines 198-200),
\* directly when a caller calls it
Render ==
    /\ pc \in {"render", "ready"}
    /\ LET events == RenderEvents(config, doc.nodes, _paths) IN
       /\ Emit(events)
       /\ disp_list' = IF pc = "render" THEN events ELSE disp_list
    /\ Called(Method("render"))
    /\ pc' = IF pc = "render" THEN "anchors" ELSE pc
    /\ UNCHANGED <<glStencilBits, doc, args, config, _stencil_mask, maskCalls, wraps,
                   ret, _paths, path_lookup, patterns, _gradients, width, height,
                   _anchor_x, _anchor_y, _a_x, _a_y, cfg, detailed>>

\* __init__, lines 118-119
InitAnchors ==
    /\ pc = "anchors"
    /\ _anchor_x' = args.anchor_x
    /\ _anchor_y' = args.anchor_y
    /\ pc' = "ready"
    /\ UNCHANGED <<glStencilBits, doc, args, config, _stencil_mask, maskCalls, wraps,
                   ret, _paths, path_lookup, patterns, _gradients, width, height,
                   disp_list, _a_x, _a_y, gl, last, cfg, detailed>>

_get_anchor_y(stored) == stored

\* the offset _set_anchor_x stores in self._a_x
AnchorOffsetX(anchor, w) ==
    IF anchor.kw = "left" THEN Q(0)
    ELSE IF anchor.kw = "center" THEN Half(w)
    ELSE IF anchor.kw = "right" THEN Q(w)
    ELSE anchor.q

\* the offset _set_anchor_y stores in self._a_y; `property` is what
\* self.anchor_y yields in the last branch
AnchorOffsetY(anchor, h, property) ==
    IF anchor.kw = "bottom" THEN Q(0)
    ELSE IF anchor.kw = "center" THEN Half(h)
    ELSE IF anchor.kw = "top" THEN Q(h)
    ELSE property.q

AnchorXValues == {Num(5), Kw("left"), Kw("center"), Kw("right")}
AnchorYValues == {Num(7), Kw("bottom"), Kw("center"), Kw("top")}

SetAnchorX == \E v \in AnchorXValues :
    /\ pc = "ready"
    /\ _anchor_x' = v
    /\ _a_x' = Defined(AnchorOffsetX(_anchor_x', width))
    /\ gl' = <<>>
    /\ last' = Method("anchor_x")
    /\ UNCHANGED <<glStencilBits, doc, args, pc, config, _stencil_mask, maskCalls, wraps,
                   ret, _paths, path_lookup, patterns, _gradients, width, height,
                   disp_list, _anchor_y, _a_y, cfg, detailed>>

SetAnchorY == \E v \in AnchorYValues :
    /\ pc = "ready"
    /\ _anchor_y' = v
    /\ _a_y' = Defined(AnchorOffsetY(_anchor_y', height, _get_anchor_y(_anchor_y')))
    /\ gl' = <<>>
    /\ last' = Method("anchor_y")
    /\ UNCHANGED <<glStencilBits, doc, args, pc, config, _stencil_mask, maskCalls, wraps,
                   ret, _paths, path_lookup, patterns, _gradients, width, height,
                   disp_list, _anchor_x, _a_x, cfg, detailed>>

\* draw with `and` in the test of the anchor offsets
DrawEvents_and(x, y, z, angle, scale, ax, ay) ==
    LET head == <<GL("glPushMatrix", <<>>), GL("glTranslatef", <<Q(x), Q(y), Q(z)>>)>>
                \o (IF angle # 0
                    THEN <<GL("glRotatef", <<Q(angle), Q(0), Q(0), Q(1)>>)>> ELSE <<>>)
                \o (IF scale.tuple \/ scale.a # 1
                    THEN <<GL("glScalef", <<Q(scale.a), Q(scale.b), Q(1)>>)>> ELSE <<>>)
        exit == <<GL("glPopMatrix", <<>>)>>
    IN  IF ~ax.def \/ ~ay.def
        THEN [events |-> head \o exit, ok |-> FALSE]
        ELSE [events |-> head
                         \o (IF Truthy(ax.v) /\ Truthy(ay.v)
                             THEN <<GL("glTranslatef", <<Neg(ax.v), Neg(ay.v), Q(0)>>)>>
                             ELSE <<>>)
                         \o <<GL("disp_list", <<>>)>>
                         \o exit,
              ok |-> TRUE]

\* draw: [events, ok]; reading an attribute that was never assigned raises
\* AttributeError, which leaves the with block through CurrentTransform.__exit__
DrawEvents(x, y, z, angle, scale, ax, ay) ==
    LET head == <<GL("glPushMatrix", <<>>), GL("glTranslatef", <<Q(x), Q(y), Q(z)>>)>>
                \o (IF angle # 0
                    THEN <<GL("glRotatef", <<Q(angle), Q(0), Q(0), Q(1)>>)>> ELSE <<>>)
                \o (IF scale.tuple \/ scale.a # 1
                    THEN <<GL("glScalef", <<Q(scale.a), Q(scale.b), Q(1)>>)>> ELSE <<>>)
        exit == <<GL("glPopMatrix", <<>>)>>
    IN  IF ~ax.def \/ ~ay.def
        THEN [events |-> head \o exit, ok |-> FALSE]
        ELSE [events |-> head
                         \o (IF Truthy(ax.v) \/ Truthy(ay.v)
                             THEN <<GL("glTranslatef", <<Neg(ax.v), Neg(ay.v), Q(0)>>)>>
                             ELSE <<>>)
                         \o <<GL("disp_list", <<>>)>>
                         \o exit,
              ok |-> TRUE]

Angles == {0, 15}
Scales == {Scale(1), Scale(2), ScaleXY(2, 3)}

Draw == \E x \in {1}, y \in {2}, z \in {0}, angle \in Angles, scale \in Scales :
    /\ pc = "ready"
    /\ LET r == DrawEvents(x, y, z, angle, scale, _a_x, _a_y) IN
       /\ gl' = r.events
       /\ last' = Call("draw", x, y, z, angle, scale, r.ok)
    /\ UNCHANGED <<glStencilBits, doc, args, pc, config, _stencil_mask, maskCalls, wraps,
                   ret, _paths, path_lookup, patterns, _gradients, width, height,
                   disp_list, _anchor_x, _anchor_y, _a_x, _a_y, cfg, detailed>>

----------------------------------------------------------------------------
(* Inputs and specifications *)

WidthAttrs == {NoAttr, Attr(<<"7">>), Attr(<<"1","2">>), Attr(<<"3","c","m">>)}
HeightAttrs == {NoAttr, Attr(<<"9">>), Attr(<<"2","c","m">>)}
ViewBoxes == {NoAttr, Attr(<<>>),
              Attr(<<"0"," ","0"," ","1","0","0"," ","5","0">>),
              Attr(<<"1"," ","2"," ","5"," ","4">>)}

LoadTags == {Str_path, Str_text, Str_g, Str_pattern, Str_linearGradient}

\* documents of the load, besides every tree of up to MaxNodes elements: trees
\* with repeated and absent ids, and every size over trees that use the
\* remaining tags
LoadDocs ==
    {Document(Attr(<<"7">>), NoAttr, NoAttr, t) :
        t \in Trees(2, LoadTags, {SameIds(2), FirstAnonymous(2)}, {0})}
    \cup
    {Document(w, h, vb, t) :
        w \in WidthAttrs, h \in HeightAttrs, vb \in ViewBoxes,
        t \in Trees(2, {Str_rect, Str_radialGradient}, {FirstAnonymous(2)}, {0})}

LifeTags == {Str_path, Str_pattern}

\* documents whose whole life is explored: a pattern followed by or holding
\* a shape or another pattern, and the same with the second element failing
LifeDocs ==
    {Document(Attr(<<"7">>), Attr(<<"2","c","m">>), NoAttr, t) :
        t \in {u \in Trees(2, LifeTags, {DistinctIds(2)}, {0, 2}) :
                  u[1].tag = Str_pattern}}

Arguments(ax, ay) == [anchor_x |-> ax, anchor_y |-> ay]

LifeArgs == {Arguments(Num(0), Num(0)), Arguments(Kw("center"), Kw("top"))}

\* the configs a document is constructed with: SVGConfig(), or one whose
\* allow_stencil the caller has switched off
ConfigsFor(bits) ==
    {SVGConfig(bits)}
    \cup (IF bits = 1 THEN {[SVGConfig(bits) EXCEPT !.allow_stencil = FALSE]} ELSE {})

\* __init__ up to line 116, with the tree of line 192 at hand
InitWith(docs, bitsRange, arguments) ==
    /\ glStencilBits \in bitsRange
    /\ doc \in docs
    /\ args \in arguments
    /\ pc = "parse"
    /\ config \in ConfigsFor(glStencilBits)
    /\ _stencil_mask = 0
    /\ maskCalls = 0
    /\ wraps = {}
    /\ ret = 0
    /\ _paths = <<>>
    /\ path_lookup = EmptyDict
    /\ patterns = EmptyDict
    /\ _gradients = EmptyDict
    /\ width = -1
    /\ height = -1
    /\ disp_list = <<>>
    /\ _anchor_x = NoAnchor
    /\ _anchor_y = NoAnchor
    /\ _a_x = Undefined
    /\ _a_y = Undefined
    /\ gl = <<>>
    /\ last = NoCall
    /\ cfg = config
    /\ detailed = NoConfig

Init == InitWith(LifeDocs, 0..MaxBits, LifeArgs)

Next ==
    \/ ParseDoc
    \/ PrerenderPatterns
    \/ Render
    \/ InitAnchors
    \/ NextStencilMask
    \/ SetAnchorX
    \/ SetAnchorY
    \/ Draw

Spec == Init /\ [][Next]_vars

\* the load alone
\* every tree of up to MaxNodes elements, one of them or none failing, and LoadDocs
InitLoad ==
    \/ \E n \in 0..MaxNodes :
          \E t \in [1..n -> LoadTags], p \in ParentVecs(n), b \in 0..n :
             InitWith({Document(Attr(<<"7">>), NoAttr, NoAttr,
                                Tree(n, t, p, DistinctIds(n), b))},
                      0..1, {Arguments(Num(0), Num(0))})
    \/ InitWith(LoadDocs, 0..1, {Arguments(Num(0), Num(0))})

NextLoad ==
    \/ ParseDoc
    \/ (pc = "prerender" /\ PrerenderPatterns)
    \/ (pc = "render" /\ Render)
    \/ InitAnchors

SpecLoad == InitLoad /\ [][NextLoad]_vars

\* a config object in the hands of a caller; no document is involved
InitConfig ==
    /\ InitWith({Document(NoAttr, NoAttr, NoAttr, <<>>)}, 0..MaxBits,
                {Arguments(Num(0), Num(0))})
    /\ cfg = SVGConfig(glStencilBits)

NextConfig ==
    \/ SetStencilBits
    \/ SetAllowStencil
    \/ SetHasFramebufferObjects
    \/ SetBezierPoints
    \/ SetCirclePoints
    \/ SetTolerance
    \/ SuperDetailed

SpecConfig == InitConfig /\ [][NextConfig]_vars

----------------------------------------------------------------------------
(* Properties *)

Range(f) == {f[i] : i \in DOMAIN f}
Indices(seq, op) == {i \in 1..Len(seq) : seq[i].op = op}
Bits == config.stencil_bits
IsText(tag) == EndsWith(tag, Str_text)
BadElements == {e \in 1..Len(doc.nodes) : doc.nodes[e].bad}

\* C1: with a stencil depth bits > 0, the counter is at most 2^bits - 1 whenever
\* a call has returned, and every mask id returned is in 1 .. 2^bits - 1.
C1_MaskInRange ==
    Bits > 0 =>
        /\ _stencil_mask <= Pow2(Bits) - 1
        /\ maskCalls > 0 => (ret \in 1..(Pow2(Bits) - 1) /\ ret = _stencil_mask)

\* C1 witness: on a constructed document a call has wrapped and returned 1
C1_Witness ==
    /\ Bits > 1
    /\ wraps # {}
    /\ last.op = "_next_stencil_mask"
    /\ pc = "ready"
    /\ ret = 1

\* C2: from a fresh document with bits > 0, the first 2^bits calls hold exactly
\* one wraparound-and-clear: the call number 2^bits, which sets the counter to 1
\* and clears the stencil buffer; the calls before it clear nothing.
C2_OneWrapPerCycle ==
    (Bits > 0 /\ maskCalls <= Pow2(Bits)) =>
        /\ wraps = IF maskCalls = Pow2(Bits) THEN {Pow2(Bits)} ELSE {}
        /\ (pc = "ready" /\ last.op = "_next_stencil_mask") =>
              /\ gl = IF maskCalls \in wraps THEN ClearStencil ELSE <<>>
              /\ maskCalls \in wraps => (_stencil_mask = 1 /\ ret = 1)
              /\ maskCalls \notin wraps => ret = maskCalls

\* C2 witness: the 2^bits-th call has just wrapped and cleared, for bits > 1
C2_Witness ==
    /\ Bits > 1
    /\ maskCalls = Pow2(Bits)
    /\ wraps = {maskCalls}
    /\ pc = "ready"
    /\ last.op = "_next_stencil_mask"
    /\ gl = ClearStencil


\* the constructor has finished its two passes and gl still holds their events
LoadTrace == pc = "anchors" \/ (pc = "ready" /\ last = NoCall)

Max(S) == CHOOSE m \in S : \A k \in S : k <= m
Min(S) == CHOOSE m \in S : \A k \in S : m <= k

\* C3: during the load every registered pattern is rendered exactly once, between
\* the start of prerender_patterns and the start of render; render renders no
\* shape flagged is_pattern or is_pattern_part; a draw replays the display list
\* at most once and calls no render of a pattern or of a shape.
C3_PatternsRenderedOnce ==
    /\ LoadTrace =>
          LET passes == Indices(gl, "glEnable(GL_BLEND)") IN
          /\ Cardinality(passes) = 2
          /\ \A k \in DOMAIN patterns :
                Cardinality({i \in 1..Len(gl) :
                                gl[i] = Ev("pattern.render", patterns[k].node, <<>>)}) = 1
          /\ Cardinality(Indices(gl, "pattern.render")) = Cardinality(DOMAIN patterns)
          /\ \A i \in Indices(gl, "pattern.render") : Min(passes) < i /\ i < Max(passes)
          /\ \A i \in Indices(gl, "svg_path.render") :
                /\ Max(passes) < i
                /\ ~is_pattern(doc.nodes, gl[i].n)
                /\ ~is_pattern_part(doc.nodes, gl[i].n)
    /\ (pc = "ready" /\ last.op = "draw") =>
          /\ Indices(gl, "pattern.render") = {}
          /\ Indices(gl, "svg_path.render") = {}
          /\ Cardinality(Indices(gl, "disp_list")) = IF last.ok THEN 1 ELSE 0

\* C3 witness: a document with a pattern that holds a shape has been loaded
\* and a draw has replayed its display list
C3_Witness ==
    /\ pc = "ready"
    /\ last.op = "draw"
    /\ last.ok
    /\ \E k \in DOMAIN patterns : patterns[k].paths # <<>>

\* the shapes of the document that render is to draw
MainShapes ==
    {e \in 1..Len(doc.nodes) :
        /\ _is_path_tag(doc.nodes[e].tag)
        /\ ~is_pattern(doc.nodes, e)
        /\ ~is_pattern_part(doc.nodes, e)}

\* C4: render enables blending, then clears the stencil buffer when stencilling
\* is enabled, and only then renders the shapes that are neither pattern
\* definitions nor pattern parts: each exactly once, in document order.
C4_RenderInDocumentOrder ==
    pc = "anchors" =>
        LET head == Blend \o (IF config.allow_stencil THEN ClearStencil ELSE <<>>)
            body == SubSeq(disp_list, Len(head) + 1, Len(disp_list))
        IN  /\ Len(disp_list) >= Len(head)
            /\ SubSeq(disp_list, 1, Len(head)) = head
            /\ \A i \in 1..Len(body) : body[i].op = "svg_path.render"
            /\ \A i, j \in 1..Len(body) : i < j => body[i].n < body[j].n
            /\ {body[i].n : i \in 1..Len(body)} = MainShapes

\* C4 witness: with stencilling enabled, render drew a shape and then a shape
\* nested in an element that follows it
C4_Witness ==
    /\ pc = "anchors"
    /\ config.allow_stencil
    /\ Cardinality(Indices(disp_list, "svg_path.render")) = 2
    /\ \E e \in Range(_paths) : doc.nodes[e].parent # 0

\* the failing element and its ancestors below the root, innermost first
RECURSIVE Chain(_, _)
Chain(nodes, e) ==
    IF e = 0 THEN <<>> ELSE <<e>> \o Chain(nodes, nodes[e].parent)

ExceptionPrints ==
    SelectSeq(gl, LAMBDA ev : ev.op = "print Exception while parsing element")

\* C5 as stated: an element that raises does not abort the load
C5_Original ==
    BadElements # {} => pc # "failed"

\* C5 amended: an element-level failure is printed for the element and for
\* each enclosing element and raised again; the load aborts: no pattern and no
\* shape is rendered, no display list is built, and no shape at or after the
\* failing element is registered.  A load without a failing element completes.
C5_FailureAbortsLoad ==
    /\ (BadElements # {} /\ pc # "parse") =>
          LET b == CHOOSE e \in BadElements : TRUE
              chain == Chain(doc.nodes, b)
          IN  /\ pc = "failed"
              /\ ExceptionPrints =
                    [i \in 1..Len(chain) |->
                        Ev("print Exception while parsing element", chain[i], <<>>)]
              /\ Indices(gl, "svg_path.render") = {}
              /\ Indices(gl, "pattern.render") = {}
              /\ disp_list = <<>>
              /\ \A e \in Range(_paths) : e < b
    /\ BadElements = {} => (pc # "failed" /\ ExceptionPrints = <<>>)

\* C5 witness: an element two levels below a top-level element raised, after a
\* shape had been registered
C5_Witness ==
    /\ pc = "failed"
    /\ \E b \in BadElements : Len(Chain(doc.nodes, b)) = 3
    /\ _paths # <<>>

\* C6 as stated: after construction a draw completes, with the anchor offsets
\* defined and equal to the resolution of the constructor's anchors
C6_DrawAfterConstruction ==
    (pc = "ready" /\ last.op = "draw") =>
        /\ last.ok
        /\ _a_x = Defined(AnchorOffsetX(_anchor_x, width))
        /\ _a_y = Defined(AnchorOffsetY(_anchor_y, height, _anchor_y))
        /\ Cardinality(Indices(gl, "disp_list")) = 1


\* q = n / d for rationals q and integers n, d (d > 0)
IsRatio(q, n, d) == q.num * d = n * q.den

\* C7 as stated: super_detailed returns a copy of the config it is called on,
\* with bezier_points and circle_points times 10 and tolerance divided by 100,
\* the other fields equal, and the config itself unchanged
C7_SuperDetailedCopies ==
    [][SuperDetailed =>
          /\ detailed'.bezier_points = 10 * cfg.bezier_points
          /\ detailed'.circle_points = 10 * cfg.circle_points
          /\ detailed'.tolerance.num * cfg.tolerance.den * 100
                = cfg.tolerance.num * detailed'.tolerance.den
          /\ detailed'.stencil_bits = cfg.stencil_bits
          /\ detailed'.allow_stencil = cfg.allow_stencil
          /\ detailed'.has_framebuffer_objects = cfg.has_framebuffer_objects
          /\ cfg' = cfg]_vars

\* the number a width or height attribute of the explored documents stands for
\* when it is read without a viewBox ('cm' becomes the digit 0)
AttributeValue(attr) ==
    CASE attr = NoAttr -> 0
      [] attr = Attr(<<"7">>) -> 7
      [] attr = Attr(<<"9">>) -> 9
      [] attr = Attr(<<"1","2">>) -> 12
      [] attr = Attr(<<"3","c","m">>) -> 30
      [] attr = Attr(<<"2","c","m">>) -> 20

\* the w and h of the viewBox values of the explored documents
ViewBoxSize(attr) ==
    CASE attr = Attr(<<"0"," ","0"," ","1","0","0"," ","5","0">>) -> <<100, 50>>
      [] attr = Attr(<<"1"," ","2"," ","5"," ","4">>) -> <<5, 4>>

\* C8: a root with a non-empty viewBox 'x y w h' gives width = w and height = h
\* whatever its width and height attributes are; without a viewBox (absent or
\* empty) width and height are those of the attributes.
C8_ViewBoxWins ==
    pc \in {"prerender", "render", "anchors", "ready"} =>
        IF doc.viewBox.has /\ doc.viewBox.val # <<>>
        THEN width = ViewBoxSize(doc.viewBox)[1] /\ height = ViewBoxSize(doc.viewBox)[2]
        ELSE width = AttributeValue(doc.width) /\ height = AttributeValue(doc.height)

\* C8 witness: a document with viewBox "0 0 100 50", width "3cm" and height "9"
\* was loaded as 100 by 50
C8_Witness ==
    /\ pc = "ready"
    /\ doc.viewBox = Attr(<<"0"," ","0"," ","1","0","0"," ","5","0">>)
    /\ doc.width = Attr(<<"3","c","m">>)
    /\ doc.height = Attr(<<"9">>)
    /\ width = 100
    /\ height = 50

TextElements == {e \in 1..Len(doc.nodes) : IsText(doc.nodes[e].tag)}
Shapes == {e \in 1..Len(doc.nodes) : _is_path_tag(doc.nodes[e].tag) /\ ~IsText(doc.nodes[e].tag)}

\* C9: a text element is warned about once, raises nothing, and gets no entry
\* in the shape list, the id lookup, the gradient table or the pattern table;
\* parsing goes on with its children and following siblings, so that every
\* shape of the document is registered and the main shapes are rendered.
C9_TextIsSkipped ==
    (BadElements = {} /\ pc # "parse") =>
        /\ pc # "failed"
        /\ \A e \in TextElements :
              /\ Cardinality({i \in 1..Len(gl) :
                                 gl[i] = Ev("warn Text tag not supported", e, <<>>)}) = 1
              /\ e \notin Range(_paths)
              /\ e \notin Range(path_lookup)
              /\ e \notin Range(_gradients)
              /\ \A k \in DOMAIN patterns :
                    patterns[k].node # e /\ e \notin Range(patterns[k].paths)
        /\ Range(_paths) = Shapes
        /\ pc \in {"anchors", "ready"} =>
              {disp_list[i].n : i \in Indices(disp_list, "svg_path.render")} = MainShapes

\* C9 witness: a text element with a shape inside it and a shape after it was
\* parsed, and both shapes were rendered
C9_Witness ==
    /\ pc = "anchors"
    /\ \E e \in TextElements :
          /\ \E c \in Range(_paths) : doc.nodes[c].parent = e
          /\ \E f \in Range(_paths) : f > e /\ doc.nodes[f].parent = doc.nodes[e].parent
    /\ Cardinality(Indices(disp_list, "svg_path.render")) = 2

\* a transform event that changes nothing
IsIdentity(ev) ==
    \/ ev.op = "glTranslatef" /\ \A k \in 1..3 : ev.v[k].num = 0
    \/ ev.op = "glRotatef" /\ ev.v[1].num = 0
    \/ ev.op = "glScalef" /\ \A k \in 1..3 : ev.v[k] = Q(1)

Effective(events) == SelectSeq(events, LAMBDA ev : ~IsIdentity(ev))

\* the offset an assigned anchor stands for, against the size `extent`
ExpectedOffset(anchor, q, low, high, extent) ==
    IF anchor.kw = low THEN q.num = 0
    ELSE IF anchor.kw = "center" THEN IsRatio(q, extent, 2)
    ELSE IF anchor.kw = high THEN IsRatio(q, extent, 1)
    ELSE q = anchor.q

\* C10: once both anchors were assigned through the properties, the offsets are
\* 0, half the size or the size for the keywords and the assigned number
\* otherwise, for anchor_y as for anchor_x; and a draw is, up to transforms
\* that change nothing, push, translate(x, y, z), rotate(angle), scale,
\* translate by the negated offsets, one replay of the display list, pop.
C10_DrawTransformStack ==
    (pc = "ready" /\ _a_x.def /\ _a_y.def) =>
        /\ ExpectedOffset(_anchor_x, _a_x.v, "left", "right", width)
        /\ ExpectedOffset(_anchor_y, _a_y.v, "bottom", "top", height)
        /\ last.op = "draw" =>
              /\ last.ok
              /\ gl = Effective(
                   <<GL("glPushMatrix", <<>>),
                     GL("glTranslatef", <<Q(last.x), Q(last.y), Q(last.z)>>),
                     GL("glRotatef", <<Q(last.angle), Q(0), Q(0), Q(1)>>),
                     GL("glScalef", <<Q(last.scale.a), Q(last.scale.b), Q(1)>>),
                     GL("glTranslatef", <<Neg(_a_x.v), Neg(_a_y.v), Q(0)>>),
                     GL("disp_list", <<>>),
                     GL("glPopMatrix", <<>>)>>)

\* C10 witness: a rotated, scaled draw with anchor_x 'center' and anchor_y 7
C10_Witness ==
    /\ pc = "ready"
    /\ last.op = "draw"
    /\ last.ok
    /\ last.angle = 15
    /\ last.scale.tuple
    /\ _anchor_x = Kw("center")
    /\ _anchor_y = Num(7)
    /\ Len(gl) = 7

====
